---- MODULE Spec2Model ----
(***************************************************************************)
(* Model of the pension-advisor query pipeline:                            *)
(*   src/ai_guardrails.py   SafetyGuardrails (validate_input/output)       *)
(*   src/agent_processor.py AuditLogger, agent_query and its background    *)
(*                          Phase-8 logging thread                         *)
(*   src/mlflow_model.py    PensionAdvisorModel.predict                    *)
(*   src/scorers.py         score_query and the scorers                    *)
(* and of the classifier, retry loop and tool executor of the agent, as    *)
(* the specification describes them.                                       *)
(* Costs are integers in units of 0.0001 USD; scores and thresholds are    *)
(* integers in tenths (0.7 is 7).  A text is represented by what the       *)
(* pattern checks of the guardrails observe of it.                         *)
(***************************************************************************)
EXTENDS Integers, Sequences, FiniteSets, TLC

\* ------------------------------------------------------------------ bounds
NumRequests == 2    \* request slots (concurrent agent_query calls)
MaxToxic    == 4    \* most distinct toxic keywords in one text
MaxPii      == 2    \* most PII patterns matching one text
ClassCost   == 2    \* cost of an LLM-stage classification
SynthCost   == 3    \* cost of one synthesis attempt
ValCost     == 2    \* cost of one validation attempt
MaxAttempts == 2    \* the configured maximum of validation attempts
MaxTools    == 3    \* most tool ids in one call of the tool executor
MaxRows     == 3    \* most rows in one batch handed to predict

\* ------------------------------------------------------- program constants
UnitCost          == 1     \* 0.0001 USD, the estimated cost of one guardrail verdict
ToxicWeight       == 3     \* 0.3 per toxic keyword
ScoreCap          == 10    \* min(1.0, ...)
DefaultThreshold  == 7     \* toxicity_threshold default 0.7

Requests == 1..NumRequests

\* ------------------------------------------------------------------- texts
PII_PATTERNS ==
    <<"ssn", "email", "phone", "credit_card", "australian_tfn", "australian_medicare">>

PiiNames == {PII_PATTERNS[i] : i \in 1..Len(PII_PATTERNS)}

\* kind: "none" (Python None), "empty" ('') or "text".  pii: the PII patterns
\* that match; toxic: how many distinct TOXIC_KEYWORDS occur in the lower-cased
\* text; injection / jailbreak: whether some pattern of that list matches;
\* weak: shorter than 20 characters or holding an error indicator;
\* redacted: holds the token [REDACTED].
MkText(p, t, i, j, w) ==
    [kind |-> "text", pii |-> p, toxic |-> t, injection |-> i, jailbreak |-> j,
     weak |-> w, redacted |-> FALSE]

NoneText  == [MkText({}, 0, FALSE, FALSE, FALSE) EXCEPT !.kind = "none"]
EmptyText == [MkText({}, 0, FALSE, FALSE, FALSE) EXCEPT !.kind = "empty"]

\* Python truthiness of a str-or-None value
Truthy(text) == text.kind = "text"

Get(d, k, default) == IF k \in DOMAIN d THEN d[k] ELSE default

Min(a, b) == IF a <= b THEN a ELSE b

RECURSIVE SumSeq(_)
SumSeq(s) == IF s = <<>> THEN 0 ELSE Head(s) + SumSeq(Tail(s))

\* -------------------------------------------------------- SafetyGuardrails
GuardrailResult(blocked, violations, masked, masked_text, cost, policy_applied) ==
    [blocked |-> blocked, passed |-> ~blocked, violations |-> violations,
     masked |-> masked, masked_text |-> masked_text, cost |-> cost,
     policy_applied |-> policy_applied]

_detect_pii(text) == SelectSeq(PII_PATTERNS, LAMBDA t : t \in text.pii)

_mask_pii(text) ==
    IF text.pii = {} THEN text ELSE [text EXCEPT !.pii = {}, !.redacted = TRUE]

toxicity_threshold(config) ==
    Get(Get(config, "input_policies", <<>>), "toxicity_threshold", DefaultThreshold)

\* toxic_count * 0.3 is a product of doubles: for three keywords it is
\* 0.8999999999999999, just below the double 0.9; every other product under
\* the cap is the double nearest to its decimal value
FallsShort(toxic_count) == toxic_count = 3

\* toxicity_score >= self.toxicity_threshold on doubles; the score is given in
\* tenths as it rounds, the threshold in tenths
ScoreAtLeast(toxic_count, toxicity_score, threshold) ==
    IF FallsShort(toxic_count) THEN toxicity_score > threshold
    ELSE toxicity_score >= threshold

\* (is_toxic, toxicity_score)
_check_toxicity(config, text) ==
    LET toxicity_score == Min(ScoreCap, text.toxic * ToxicWeight)
    IN  <<ScoreAtLeast(text.toxic, toxicity_score, toxicity_threshold(config)),
          toxicity_score>>

_detect_prompt_injection(text) == text.injection

_detect_jailbreak(text) == text.jailbreak

_check_groundedness(text) == ~text.weak

\* A violation string: its fixed text and the values formatted into it.
Violation(msg, detail) == [msg |-> msg, detail |-> detail]

\* f"{score:.2f}"
ScoreText(score) ==
    CASE score = 0  -> "0.00"
      [] score = 3  -> "0.30"
      [] score = 6  -> "0.60"
      [] score = 9  -> "0.90"
      [] OTHER      -> "1.00"

PiiDetected(pii_type) == Violation("PII detected", <<pii_type>>)

\* the input checks without the jailbreak check
InputViolationsNoJailbreak(config, query, policies_checked) ==
    LET pii_found == _detect_pii(query)
        tox       == _check_toxicity(config, query)
    IN    (IF ("pii_detection" \in policies_checked \/ "pii" \in policies_checked)
           THEN [i \in 1..Len(pii_found) |-> [msg |-> "PII detected", detail |-> <<pii_found[i]>>]]
           ELSE <<>>)
       \o (IF ("toxicity" \in policies_checked \/ "toxicity_threshold" \in policies_checked)
              /\ tox[1]
           THEN <<[msg |-> "Toxic content", detail |-> <<"1.00">>]>> ELSE <<>>)
       \o (IF "prompt_injection" \in policies_checked /\ _detect_prompt_injection(query)
           THEN <<[msg |-> "Prompt injection detected", detail |-> <<>>]>> ELSE <<>>)

\* checks that stop at the first violation found
InputViolationsFirstOnly(config, query, policies_checked) ==
    LET pii_found == _detect_pii(query)
        tox       == _check_toxicity(config, query)
        all ==    (IF ("pii_detection" \in policies_checked \/ "pii" \in policies_checked)
                   THEN [i \in 1..Len(pii_found) |-> [msg |-> "PII detected", detail |-> <<pii_found[i]>>]]
                   ELSE <<>>)
               \o (IF ("toxicity" \in policies_checked \/ "toxicity_threshold" \in policies_checked)
                      /\ tox[1]
                   THEN <<[msg |-> "Toxic content", detail |-> <<ScoreText(tox[2])>>]>> ELSE <<>>)
               \o (IF "prompt_injection" \in policies_checked /\ _detect_prompt_injection(query)
                   THEN <<[msg |-> "Prompt injection detected", detail |-> <<>>]>> ELSE <<>>)
               \o (IF ("jailbreak_detection" \in policies_checked \/ "jailbreak" \in policies_checked)
                      /\ _detect_jailbreak(query)
                   THEN <<[msg |-> "Jailbreak attempt detected", detail |-> <<>>]>> ELSE <<>>)
    IN  IF all = <<>> THEN <<>> ELSE <<all[1]>>

InputViolations(config, query, policies_checked) ==
    LET pii_found == _detect_pii(query)
        tox       == _check_toxicity(config, query)
    IN    (IF ("pii_detection" \in policies_checked \/ "pii" \in policies_checked)
           THEN [i \in 1..Len(pii_found) |-> PiiDetected(pii_found[i])] ELSE <<>>)
       \o (IF ("toxicity" \in policies_checked \/ "toxicity_threshold" \in policies_checked)
              /\ tox[1]
           THEN <<Violation("Toxic content", <<ScoreText(tox[2])>>)>> ELSE <<>>)
       \o (IF "prompt_injection" \in policies_checked /\ _detect_prompt_injection(query)
           THEN <<Violation("Prompt injection detected", <<>>)>> ELSE <<>>)
       \o (IF ("jailbreak_detection" \in policies_checked \/ "jailbreak" \in policies_checked)
              /\ _detect_jailbreak(query)
           THEN <<Violation("Jailbreak attempt detected", <<>>)>> ELSE <<>>)

\* policies: the set of policy names passed ({} models None and []).
validate_input(config, query, policies) ==
    IF ~Get(config, "enabled", TRUE)
    THEN GuardrailResult(FALSE, <<>>, FALSE, NoneText, 0, {})
    ELSE LET policies_checked ==
                 IF policies # {} THEN policies
                 ELSE DOMAIN Get(config, "input_policies", <<>>)
             violations == InputViolations(config, query, policies_checked)
         IN  GuardrailResult(Len(violations) > 0, violations, FALSE, NoneText,
                             IF policies_checked # {} THEN UnitCost ELSE 0,
                             policies_checked)

OutputViolations(config, response, policies_checked) ==
    LET pii_found == _detect_pii(response)
        tox       == _check_toxicity(config, response)
    IN    (IF ("pii_masking" \in policies_checked \/ "pii" \in policies_checked)
              /\ pii_found # <<>>
           THEN <<Violation("PII masked", pii_found)>> ELSE <<>>)
       \o (IF ("toxicity" \in policies_checked \/ "toxicity_threshold" \in policies_checked)
              /\ tox[1]
           THEN <<Violation("Toxic output", <<ScoreText(tox[2])>>)>> ELSE <<>>)
       \o (IF ("groundedness_check" \in policies_checked \/ "groundedness" \in policies_checked)
              /\ ~_check_groundedness(response)
           THEN <<Violation("Response may not be grounded in facts", <<>>)>> ELSE <<>>)

\* any violation blocks
AnyViolation(violations) == violations # <<>>

\* any("Toxic" in v for v in violations)
AnyToxic(violations) ==
    \E i \in 1..Len(violations) :
        violations[i].msg \in {"Toxic output", "Toxic content"}

validate_output(config, response, policies) ==
    IF ~Get(config, "enabled", TRUE)
    THEN GuardrailResult(FALSE, <<>>, FALSE, response, 0, {})
    ELSE LET policies_checked ==
                 IF policies # {} THEN policies
                 ELSE DOMAIN Get(config, "output_policies", <<>>)
             violations == OutputViolations(config, response, policies_checked)
             masked == ("pii_masking" \in policies_checked \/ "pii" \in policies_checked)
                       /\ _detect_pii(response) # <<>>
         IN  GuardrailResult(AnyToxic(violations), violations, masked,
                             IF masked THEN _mask_pii(response) ELSE response,
                             IF policies_checked # {} THEN UnitCost ELSE 0,
                             policies_checked)

\* ------------------------------------------------------------------- state
VARIABLES
    AI_GUARDRAILS_CONFIG,  \* src.config: loaded once per process
    script,                \* per request: the call's arguments and what its collaborators answer
    pc,                    \* per request: position of the request thread in agent_query
    loc,                   \* per request: the local variables of agent_query
    agent,                 \* per request: SuperAdvisorAgent.process_query's result under construction
    trace,                 \* per request: the stages that ran, in order
    thr,                   \* per request: the Phase8-Logging thread
    stmt,                  \* per request and caller: the INSERT statement handed to the warehouse
    governance,            \* rows of the governance table
    logging_threads,       \* agent_query._logging_threads
    ret,                   \* per request: what agent_query returned
    gcase,                 \* a direct call of one function: its arguments
    gresult                \* ... and its result

vars == <<AI_GUARDRAILS_CONFIG, script, pc, loc, agent, trace, thr, stmt, governance,
          logging_threads, ret, gcase, gresult>>

guardVars == <<gcase, gresult>>

\* src/config (config.yaml): the guardrail section, switched on or off
GuardrailsConfig(enabled) ==
    [enabled |-> enabled,
     input_policies |-> [pii_detection |-> TRUE, toxicity_threshold |-> DefaultThreshold,
                         prompt_injection |-> TRUE, jailbreak_detection |-> TRUE],
     output_policies |-> [pii_masking |-> TRUE, toxicity_threshold |-> DefaultThreshold,
                          groundedness_check |-> TRUE]]

AI_GUARDRAILS_ENABLED == AI_GUARDRAILS_CONFIG.enabled

\* ----------------------------------------------------------------- scripts
SafeQuery == MkText({}, 0, FALSE, FALSE, FALSE)      \* "What is my preservation age?"
SsnQuery  == MkText({"ssn"}, 0, FALSE, FALSE, FALSE) \* "My SSN is 123-45-6789, what's my balance?"

PlainAnswer == MkText({}, 0, FALSE, FALSE, FALSE)
PiiAnswer   == MkText({"email"}, 0, FALSE, FALSE, FALSE)
ToxicAnswer == MkText({}, MaxToxic - 1, FALSE, FALSE, FALSE)

\* what the classifier stages find of a query: how many stage-1 rules match
\* it, and whether the stage-2 similarity is conclusive
MkQueryClass(rules, similar) == [rules |-> rules, similar |-> similar]

RuleMatch == MkQueryClass(1, FALSE)
Ambiguous == MkQueryClass(0, FALSE)

QueryClasses == {MkQueryClass(rules, similar) : rules \in {0, 1, 2}, similar \in BOOLEAN}

\* where an exception is raised, if anywhere; "no_validation": nothing is
\* raised, and process_query hands back a result without validation results
FaultPoints ==
    {"none", "tools", "synthesis", "validation", "thread_start", "mark_phase_complete",
     "no_validation"}

\* qclass: what the classifier finds of the query; fails: how many validation
\* attempts fail before one passes; rising: whether the failing attempts score
\* higher from one attempt to the next (or lower); response: the text of the
\* first synthesis attempt
MkScript(q, m, f, k, n, g, a) ==
    [query |-> q, validation_mode |-> m, fault |-> f, qclass |-> k, fails |-> n,
     rising |-> g, response |-> a]

Scripts ==
    {MkScript(SsnQuery, "llm_judge", "none", RuleMatch, 0, TRUE, PlainAnswer)}
    \cup {MkScript(SafeQuery, "llm_judge", f, k, n, g, a) :
            f \in {"none", "thread_start", "mark_phase_complete"}, k \in {RuleMatch, Ambiguous},
            n \in 1..MaxAttempts, g \in BOOLEAN, a \in {PlainAnswer, PiiAnswer}}
    \cup {MkScript(SafeQuery, m, f, k, 0, TRUE, a) :
            m \in {"llm_judge", "deterministic"},
            f \in {"none", "thread_start", "mark_phase_complete"}, k \in {RuleMatch, Ambiguous},
            a \in {PlainAnswer, PiiAnswer}}
    \cup {MkScript(SafeQuery, "llm_judge", f, k, 0, TRUE, PlainAnswer) :
            f \in {"tools", "synthesis", "validation"}, k \in {RuleMatch, Ambiguous}}
    \cup {MkScript(SafeQuery, "deterministic", "none", k, 0, TRUE, PlainAnswer) :
            k \in QueryClasses}
    \cup {MkScript(SafeQuery, m, "none", RuleMatch, 0, TRUE, ToxicAnswer) :
            m \in {"llm_judge", "deterministic"}}

\* an agent whose result carries no validation results although the mode is llm_judge
StubScripts ==
    {MkScript(SafeQuery, "llm_judge", "no_validation", k, 0, TRUE, a) :
        k \in {RuleMatch, Ambiguous}, a \in {PlainAnswer, PiiAnswer}}

NoScript == [absent |-> TRUE]

\* ------------------------------------------------------- initial values
NoVerdict == GuardrailResult(FALSE, <<>>, FALSE, NoneText, 0, {})

InitLoc ==
    [answer |-> NoneText, judge_verdict |-> <<>>, error_info |-> "None",
     tools_called |-> <<>>, total_cost |-> 0, cost_breakdown |-> <<>>,
     input_validation |-> NoVerdict, output_validation |-> NoVerdict,
     response_dict |-> <<>>, e |-> "", pruned |-> <<>>]

InitAgent ==
    [classification |-> <<>>, tools_used |-> <<>>, synthesis_results |-> <<>>,
     validation_results |-> <<>>, response |-> NoneText, returned |-> FALSE]

InitThread == [pc |-> "none", cost_metadata |-> <<>>]

NoStmt == [status |-> "none"]

NoReturn == [pending |-> TRUE]

NoCase == [op |-> "none"]

\* agent_query._logging_threads: <<>> while the attribute does not exist, then <<the list>>
Unset == <<>>
Attr(list) == <<list>>

\* requests 1..n are calls of agent_query, the other slots stay unused
InitRequests(n, scripts, configs) ==
    /\ AI_GUARDRAILS_CONFIG \in configs
    /\ script \in [Requests -> scripts \cup {NoScript}]
    /\ \A r \in Requests : (script[r] = NoScript) <=> (r > n)
    /\ pc = [r \in Requests |-> IF r <= n THEN "start" ELSE "unused"]
    /\ loc = [r \in Requests |-> InitLoc]
    /\ agent = [r \in Requests |-> InitAgent]
    /\ trace = [r \in Requests |-> <<>>]
    /\ thr = [r \in Requests |-> InitThread]
    /\ stmt = [r \in Requests |-> [thread |-> NoStmt, request |-> NoStmt]]
    /\ governance = <<>>
    /\ logging_threads = Unset
    /\ ret = [r \in Requests |-> NoReturn]

\* config.yaml with `pii_detection: false` under input_policies
PiiDetectionOff == [GuardrailsConfig(TRUE) EXCEPT !.input_policies.pii_detection = FALSE]

ProcessConfigs == {GuardrailsConfig(TRUE), GuardrailsConfig(FALSE), PiiDetectionOff}

\* one call of agent_query
Init ==
    /\ InitRequests(1, Scripts, ProcessConfigs)
    /\ gcase = NoCase
    /\ gresult = NoCase

requestVars == <<AI_GUARDRAILS_CONFIG, script, pc, loc, agent, trace, thr, stmt,
                 governance, logging_threads, ret>>

Event(r, name) == trace' = [trace EXCEPT ![r] = Append(@, name)]

Goto(r, label) == pc' = [pc EXCEPT ![r] = label]

\* -------------------------------------------------- agent_query: guardrail in
\* the blocked response of agent_query (lines 289-296)
BlockedResponse(r, input_validation) ==
    [error |-> "Query blocked by safety policies", blocked |-> TRUE,
     violations |-> input_validation.violations, cost |-> input_validation.cost,
     session_id |-> r]

\* a blocked verdict that does not end the request
ShortCircuitNever(input_validation) == FALSE

\* `if input_validation.blocked:` (line 284)
ShortCircuit(input_validation) == input_validation.blocked

\* lines 222-311: locals, input guardrails, agent construction
InputGuardrails(r) ==
    /\ pc[r] = "start"
    /\ IF AI_GUARDRAILS_ENABLED
       THEN LET input_validation ==
                    validate_input(AI_GUARDRAILS_CONFIG, script[r].query,
                                   DOMAIN AI_GUARDRAILS_CONFIG.input_policies)
            IN  /\ loc' = [loc EXCEPT ![r].input_validation = input_validation,
                                      ![r].total_cost = @ + input_validation.cost]
                /\ IF ShortCircuit(input_validation)
                   THEN /\ ret' = [ret EXCEPT ![r] = BlockedResponse(r, input_validation)]
                        /\ Goto(r, "done")
                   ELSE /\ Goto(r, "classify")
                        /\ UNCHANGED ret
                /\ Event(r, "guardrail_in")
       ELSE /\ Goto(r, "classify")
            /\ UNCHANGED <<loc, ret, trace>>
    /\ UNCHANGED <<AI_GUARDRAILS_CONFIG, script, agent, thr, stmt, governance,
                   logging_threads, guardVars>>

\* ------------------------------------ SuperAdvisorAgent.process_query (line 317)
\* an exception leaves process_query and reaches the except block of agent_query
Raise(r, what) ==
    /\ loc' = [loc EXCEPT ![r].e = what]
    /\ Goto(r, "except")

\* the stages of the cascade, as the spec describes them
Stage1Conclusive(qclass) == qclass.rules = 1
Stage2Conclusive(qclass) == qclass.similar

ClassificationResult(method, cost_usd, stages) ==
    [method |-> method, cost_usd |-> cost_usd, stages |-> stages]

\* a cascade that asks the LLM whatever the earlier stages found
ClassifyQueryAlwaysLlm(qclass) ==
    [method |-> "llm", cost_usd |-> ClassCost, stages |-> <<"regex", "embedding", "llm">>]

\* classify(query, country): the earliest conclusive stage answers
ClassifyQuery(qclass) ==
    IF Stage1Conclusive(qclass)
    THEN ClassificationResult("regex", 0, <<"regex">>)
    ELSE IF Stage2Conclusive(qclass)
         THEN ClassificationResult("embedding", 0, <<"regex", "embedding">>)
         ELSE ClassificationResult("llm", ClassCost, <<"regex", "embedding", "llm">>)

Classify(r) ==
    /\ pc[r] = "classify"
    /\ agent' = [agent EXCEPT ![r].classification = ClassifyQuery(script[r].qclass)]
    /\ Goto(r, "tools")
    /\ Event(r, "classify")
    /\ UNCHANGED <<AI_GUARDRAILS_CONFIG, script, loc, thr, stmt, governance,
                   logging_threads, ret, guardVars>>

ExecuteTools(r) ==
    /\ pc[r] = "tools"
    /\ Event(r, "tools")
    /\ IF script[r].fault = "tools"
       THEN Raise(r, "tools") /\ UNCHANGED agent
       ELSE /\ agent' = [agent EXCEPT ![r].tools_used = <<"tool">>]
            /\ Goto(r, "synthesize")
            /\ UNCHANGED loc
    /\ UNCHANGED <<AI_GUARDRAILS_CONFIG, script, thr, stmt, governance,
                   logging_threads, ret, guardVars>>

\* the synthesizer's texts differ from one attempt to the next
OtherText(text) == IF text = PlainAnswer THEN PiiAnswer ELSE PlainAnswer

AttemptText(sc, i) == IF i % 2 = 1 THEN sc.response ELSE OtherText(sc.response)

\* process_query returns after synthesis, without a validation attempt
SkipsValidation(sc) == sc.validation_mode = "deterministic" \/ sc.fault = "no_validation"

Synthesize(r) ==
    /\ pc[r] = "synthesize"
    /\ Event(r, "synthesize")
    /\ IF script[r].fault = "synthesis"
       THEN Raise(r, "synthesis") /\ UNCHANGED agent
       ELSE /\ LET text == AttemptText(script[r], Len(agent[r].synthesis_results) + 1)
               IN  agent' = [agent EXCEPT
                      ![r].synthesis_results = Append(@, [cost |-> SynthCost, text |-> text]),
                      ![r].response = text,
                      ![r].returned = SkipsValidation(script[r])]
            /\ Goto(r, IF SkipsValidation(script[r]) THEN "extract" ELSE "validate")
            /\ UNCHANGED loc
    /\ UNCHANGED <<AI_GUARDRAILS_CONFIG, script, thr, stmt, governance,
                   logging_threads, ret, guardVars>>

\* the validator's confidence in attempt i
AttemptConfidence(sc, i, passed) ==
    IF passed THEN ScoreCap - 1
    ELSE IF sc.rising THEN i ELSE MaxAttempts + 1 - i

ValidationAttempt(passed, confidence) ==
    [passed |-> passed, confidence |-> confidence,
     reasoning |-> IF passed THEN "grounded" ELSE "citation missing",
     violations |-> IF passed THEN <<>> ELSE <<"MISSING_CITATION">>,
     cost |-> ValCost]

\* a retry loop that does not look at the verdict
RetryWhateverVerdict(passed, attempts) == attempts < MaxAttempts

\* a retry loop that does not look at the attempt count
RetryUnbounded(passed, attempts) == ~passed

\* VALIDATE -> RETRY only while validation fails and the attempt count is below the maximum
Retry(passed, attempts) == ~passed /\ attempts < MaxAttempts

\* the latest attempt, whatever it scored
FinalAttemptLast(validation_results) == Len(validation_results)

\* the attempt whose text is the final answer: the one that passed, else the
\* best-scoring attempt seen (the latest of them when several score alike)
FinalAttempt(validation_results) ==
    LET n == Len(validation_results)
    IN  IF validation_results[n].passed THEN n
        ELSE CHOOSE i \in 1..n :
                /\ \A j \in 1..n :
                      validation_results[i].confidence >= validation_results[j].confidence
                /\ \A j \in (i + 1)..n :
                      validation_results[i].confidence > validation_results[j].confidence

Validate(r) ==
    /\ pc[r] = "validate"
    /\ Event(r, "validate")
    /\ IF script[r].fault = "validation"
       THEN Raise(r, "validation") /\ UNCHANGED agent
       ELSE LET attempts == Len(agent[r].validation_results) + 1
                passed   == attempts > script[r].fails
                results  == Append(agent[r].validation_results,
                                   ValidationAttempt(passed,
                                       AttemptConfidence(script[r], attempts, passed)))
            IN  /\ agent' = [agent EXCEPT
                      ![r].validation_results = results,
                      ![r].response =
                          IF Retry(passed, attempts) THEN @
                          ELSE agent[r].synthesis_results[FinalAttempt(results)].text,
                      ![r].returned = ~Retry(passed, attempts)]
                /\ Goto(r, IF Retry(passed, attempts) THEN "synthesize" ELSE "extract")
                /\ UNCHANGED loc
    /\ UNCHANGED <<AI_GUARDRAILS_CONFIG, script, thr, stmt, governance,
                   logging_threads, ret, guardVars>>

\* ------------------------------------------- agent_query: lines 327-505
result_dict(r) == agent[r]

Costs(results) == SumSeq([i \in 1..Len(results) |-> results[i].cost])

\* the number of retries, not of attempts
SynthesisRetries(synthesis_results) == Len(synthesis_results) - 1

\* line 430: 'attempts': len(synthesis_results)
SynthesisAttempts(synthesis_results) == Len(synthesis_results)

\* line 448: 'attempts': len(validation_results)
ValidationAttempts(validation_results) == Len(validation_results)

\* a verdict whose attempt count defaults to 1 when no validation ran
JudgeVerdictOneAttempt(validation_results, validation_mode) ==
    IF validation_results # <<>>
    THEN LET final_validation == validation_results[Len(validation_results)]
         IN  [passed |-> final_validation.passed,
              confidence |-> final_validation.confidence,
              verdict |-> IF final_validation.passed THEN "Pass" ELSE "Fail",
              reasoning |-> final_validation.reasoning,
              violations |-> final_validation.violations,
              validation_mode |-> validation_mode,
              attempts |-> Len(validation_results)]
    ELSE [passed |-> TRUE, confidence |-> 10, verdict |-> "Pass",
          reasoning |-> "Deterministic validation", violations |-> <<>>,
          validation_mode |-> validation_mode, attempts |-> 1]

\* a verdict taken from the first validation attempt
JudgeVerdictFirstAttempt(validation_results, validation_mode) ==
    IF validation_results # <<>>
    THEN LET final_validation == validation_results[1]
         IN  [passed |-> final_validation.passed,
              confidence |-> final_validation.confidence,
              verdict |-> IF final_validation.passed THEN "Pass" ELSE "Fail",
              reasoning |-> final_validation.reasoning,
              violations |-> final_validation.violations,
              validation_mode |-> validation_mode,
              attempts |-> Len(validation_results)]
    ELSE [passed |-> TRUE, confidence |-> 10, verdict |-> "Pass",
          reasoning |-> "Deterministic validation", violations |-> <<>>,
          validation_mode |-> validation_mode, attempts |-> 0]

\* lines 382-403
JudgeVerdict(validation_results, validation_mode) ==
    IF validation_results # <<>>
    THEN LET final_validation == validation_results[Len(validation_results)]
         IN  [passed |-> final_validation.passed,
              confidence |-> final_validation.confidence,
              verdict |-> IF final_validation.passed THEN "Pass" ELSE "Fail",
              reasoning |-> final_validation.reasoning,
              violations |-> final_validation.violations,
              validation_mode |-> validation_mode,
              attempts |-> Len(validation_results)]
    ELSE [passed |-> TRUE, confidence |-> 10, verdict |-> "Pass",
          reasoning |-> "Deterministic validation", violations |-> <<>>,
          validation_mode |-> validation_mode, attempts |-> 0]

\* line 472
TotalCost(total_cost, classification_cost, total_synthesis_cost, total_validation_cost) ==
    classification_cost + total_synthesis_cost + total_validation_cost

Extract(r) ==
    /\ pc[r] = "extract"
    /\ LET rd == result_dict(r)
           total_synthesis_cost  == Costs(rd.synthesis_results)
           total_validation_cost == Costs(rd.validation_results)
           classification_cost   == Get(rd.classification, "cost_usd", 0)
           total == TotalCost(loc[r].total_cost, classification_cost,
                              total_synthesis_cost, total_validation_cost)
       IN  loc' = [loc EXCEPT
              ![r].tools_called = rd.tools_used,
              ![r].answer = rd.response,
              ![r].response_dict = rd,
              ![r].judge_verdict =
                  JudgeVerdict(rd.validation_results, script[r].validation_mode),
              ![r].total_cost = total,
              ![r].cost_breakdown =
                  [synthesis |-> [cost |-> total_synthesis_cost,
                                  attempts |-> SynthesisAttempts(rd.synthesis_results)],
                   validation |-> [cost |-> total_validation_cost,
                                   attempts |-> ValidationAttempts(rd.validation_results)],
                   classification |-> [cost |-> classification_cost,
                                       method |-> Get(rd.classification, "method", "unknown")],
                   total |-> [classification_cost |-> classification_cost,
                              synthesis_cost |-> total_synthesis_cost,
                              validation_cost |-> total_validation_cost,
                              total_cost |-> total]]]
    /\ Goto(r, "start_thread")
    /\ UNCHANGED <<AI_GUARDRAILS_CONFIG, script, agent, trace, thr, stmt, governance,
                   logging_threads, ret, guardVars>>

\* ------------------------------------------ AuditLogger.log_to_governance_table
NoErrorInfo == [kind |-> "none"]
JsonInfo(cost_metadata) == [kind |-> "json", cost_metadata |-> cost_metadata]
TextInfo(text) == [kind |-> "text", text |-> text]

\* lines 66-85: what is stored in the error_text column
ErrorText(error_info, classification_method) ==
    CASE error_info.kind = "json" -> [format |-> "json", cost_metadata |-> error_info.cost_metadata]
      [] error_info.kind = "text" /\ classification_method # "" ->
             [format |-> "prefixed", classification_method |-> classification_method,
              text |-> error_info.text]
      [] error_info.kind = "text" -> [format |-> "text", text |-> error_info.text]
      [] error_info.kind = "none" /\ classification_method # "" ->
             [format |-> "method", classification_method |-> classification_method]
      [] OTHER -> [format |-> "empty"]

\* lines 51-119: the row of the INSERT statement
GovernanceRow(session_id, answer, judge_verdict, tools_called, cost, error_info, classification_method) ==
    [session_id |-> session_id,
     agent_response |-> IF Truthy(answer) THEN answer ELSE EmptyText,
     cost |-> cost,
     tool_used |-> IF tools_called # <<>> THEN tools_called[1] ELSE "none",
     judge_verdict |-> Get(judge_verdict, "verdict", "UNKNOWN"),
     judge_confidence |-> Get(judge_verdict, "confidence", 0),
     error_text |-> ErrorText(error_info, classification_method),
     validation_mode |-> Get(judge_verdict, "validation_mode", "llm_judge"),
     validation_attempts |-> Get(judge_verdict, "attempts", 1)]

\* a failed statement's exception leaves log_to_governance_table
LogCallOutcomeReraises(status) == IF status = "failed" THEN "raises" ELSE "returns"

\* lines 50, 128-129: how the call ends for its caller, given how the statement
\* ended ("ok", "failed", or still "pending" when wait_timeout expired)
LogCallOutcome(status) == "returns"

\* lines 121-125: execute_statement hands the INSERT to the warehouse
Submit(r, who, row) ==
    stmt' = [stmt EXCEPT ![r][who] = [status |-> "pending", row |-> row]]

\* the warehouse runs (or fails to run) a pending INSERT
ExecuteStatement(r, who) ==
    /\ stmt[r][who].status = "pending"
    /\ \E ok \in BOOLEAN :
          /\ stmt' = [stmt EXCEPT ![r][who].status = IF ok THEN "ok" ELSE "failed"]
          /\ governance' = IF ok THEN Append(governance, stmt[r][who].row) ELSE governance
    /\ UNCHANGED <<AI_GUARDRAILS_CONFIG, script, pc, loc, agent, trace, thr,
                   logging_threads, ret, guardVars>>

\* --------------------------------------- agent_query: Phase 8 (lines 507-616)
is_alive(t) == thr[t].pc \in {"started", "meta", "wait"}

\* lines 511-590: logging_thread.start()
StartLoggingThread(r) ==
    /\ pc[r] = "start_thread"
    /\ IF script[r].fault = "thread_start"
       THEN Raise(r, "thread_start") /\ UNCHANGED <<thr, trace>>
       ELSE /\ thr' = [thr EXCEPT ![r].pc = "started"]
            /\ Goto(r, "mark_complete")
            /\ Event(r, "audit_dispatch")
            /\ UNCHANGED loc
    /\ UNCHANGED <<AI_GUARDRAILS_CONFIG, script, agent, stmt, governance,
                   logging_threads, ret, guardVars>>

\* line 594: mark_phase_complete('phase_8_logging')
MarkPhaseComplete(r) ==
    /\ pc[r] = "mark_complete"
    /\ IF script[r].fault = "mark_phase_complete"
       THEN Raise(r, "mark_phase_complete")
       ELSE Goto(r, "track_check") /\ UNCHANGED loc
    /\ UNCHANGED <<AI_GUARDRAILS_CONFIG, script, agent, trace, thr, stmt, governance,
                   logging_threads, ret, guardVars>>

\* line 599: if not hasattr(agent_query, '_logging_threads')
TrackCheck(r) ==
    /\ pc[r] = "track_check"
    /\ Goto(r, IF logging_threads = Unset THEN "track_create" ELSE "track_append")
    /\ UNCHANGED <<AI_GUARDRAILS_CONFIG, script, loc, agent, trace, thr, stmt, governance,
                   logging_threads, ret, guardVars>>

\* lines 600-611: agent_query._logging_threads = []; atexit.register(...)
TrackCreate(r) ==
    /\ pc[r] = "track_create"
    /\ logging_threads' = Attr(<<>>)
    /\ Goto(r, "track_append")
    /\ UNCHANGED <<AI_GUARDRAILS_CONFIG, script, loc, agent, trace, thr, stmt, governance,
                   ret, guardVars>>

\* line 613
TrackAppend(r) ==
    /\ pc[r] = "track_append"
    /\ logging_threads' = Attr(Append(logging_threads[1], r))
    /\ Goto(r, "prune_read")
    /\ UNCHANGED <<AI_GUARDRAILS_CONFIG, script, loc, agent, trace, thr, stmt, governance,
                   ret, guardVars>>

\* line 616, right-hand side: [t for t in agent_query._logging_threads if t.is_alive()]
PruneRead(r) ==
    /\ pc[r] = "prune_read"
    /\ loc' = [loc EXCEPT ![r].pruned = SelectSeq(logging_threads[1], is_alive)]
    /\ Goto(r, "prune_assign")
    /\ UNCHANGED <<AI_GUARDRAILS_CONFIG, script, agent, trace, thr, stmt, governance,
                   logging_threads, ret, guardVars>>

\* line 616, the assignment
PruneAssign(r) ==
    /\ pc[r] = "prune_assign"
    /\ logging_threads' = Attr(loc[r].pruned)
    /\ Goto(r, "guard_out")
    /\ UNCHANGED <<AI_GUARDRAILS_CONFIG, script, loc, agent, trace, thr, stmt, governance,
                   ret, guardVars>>

\* ------------------------------------- async_phase8_logging (lines 530-579)
\* lines 533-550
Phase8Metadata(r) ==
    /\ thr[r].pc = "started"
    /\ LET total == loc[r].cost_breakdown.total
       IN  thr' = [thr EXCEPT ![r].pc = "meta",
                              ![r].cost_metadata =
                                  [classification_cost |-> total.classification_cost,
                                   classification_method |->
                                       Get(result_dict(r).classification, "method", "unknown"),
                                   synthesis_cost |-> total.synthesis_cost,
                                   validation_cost |-> total.validation_cost,
                                   total_cost |-> loc[r].total_cost]]
    /\ UNCHANGED <<AI_GUARDRAILS_CONFIG, script, pc, loc, agent, trace, stmt, governance,
                   logging_threads, ret, guardVars>>

\* lines 552-567: the call of log_to_governance_table, up to execute_statement
Phase8Log(r) ==
    /\ thr[r].pc = "meta"
    /\ Submit(r, "thread",
              GovernanceRow(r, loc[r].answer, loc[r].judge_verdict, loc[r].tools_called,
                            loc[r].total_cost, JsonInfo(thr[r].cost_metadata),
                            thr[r].cost_metadata.classification_method))
    /\ thr' = [thr EXCEPT ![r].pc = "wait"]
    /\ UNCHANGED <<AI_GUARDRAILS_CONFIG, script, pc, loc, agent, trace, governance,
                   logging_threads, ret, guardVars>>

\* lines 568-579: the call is over (the statement ended, or wait_timeout expired);
\* whatever it raises is caught at line 569 or 578 and logged
Phase8Done(r) ==
    /\ thr[r].pc = "wait"
    /\ LogCallOutcome(stmt[r].thread.status) \in {"returns", "raises"}
    /\ thr' = [thr EXCEPT ![r].pc = "done"]
    /\ UNCHANGED <<AI_GUARDRAILS_CONFIG, script, pc, loc, agent, trace, stmt, governance,
                   logging_threads, ret, guardVars>>

\* ------------------------------------ agent_query: except (lines 618-686)
\* lines 628-636
ErrorJudgeVerdict(validation_mode) ==
    [passed |-> FALSE, confidence |-> 0, verdict |-> "Error",
     reasoning |-> "Error during query processing",
     violations |-> <<"SYSTEM_ERROR">>, validation_mode |-> validation_mode,
     attempts |-> 0]

\* line 647: the cost written with the error record
ErrorRecordCost(total_cost) == 0

\* lines 618-652: up to execute_statement inside log_to_governance_table
HandleException(r) ==
    /\ pc[r] = "except"
    /\ loc' = [loc EXCEPT ![r].error_info = "traceback"]
    /\ Submit(r, "request",
              GovernanceRow(r, EmptyText, ErrorJudgeVerdict(script[r].validation_mode),
                            loc[r].tools_called, ErrorRecordCost(loc[r].total_cost),
                            TextInfo("traceback"), "error"))
    /\ Goto(r, "error_logging")
    /\ Event(r, "audit_dispatch")
    /\ UNCHANGED <<AI_GUARDRAILS_CONFIG, script, agent, thr, governance,
                   logging_threads, ret, guardVars>>

\* lines 639-686: log_to_governance_table is over (the statement ended, or
\* wait_timeout expired); judge_verdict and error_info are set
ErrorLogged(r) ==
    /\ pc[r] = "error_logging"
    /\ IF LogCallOutcome(stmt[r].request.status) = "raises"
       THEN /\ ret' = [ret EXCEPT ![r] = [raised |-> "governance logging"]]
            /\ Goto(r, "done")
            /\ UNCHANGED loc
       ELSE /\ loc' = [loc EXCEPT
                  ![r].judge_verdict =
                      [verdict |-> "ERROR", confidence |-> 0, passed |-> FALSE,
                       reasoning |-> "Error", violations |-> <<>>,
                       validation_mode |-> script[r].validation_mode, attempts |-> 0],
                  ![r].error_info = loc[r].e]
            /\ Goto(r, "guard_out")
            /\ UNCHANGED ret
    /\ UNCHANGED <<AI_GUARDRAILS_CONFIG, script, agent, trace, thr, stmt, governance,
                   logging_threads, guardVars>>

\* ------------------------------- agent_query: guardrail out and return
\* lines 708-731
OutputGuardrails(r) ==
    /\ pc[r] = "guard_out"
    /\ IF AI_GUARDRAILS_ENABLED /\ Truthy(loc[r].answer)
       THEN LET output_validation ==
                    validate_output(AI_GUARDRAILS_CONFIG, loc[r].answer,
                                    DOMAIN AI_GUARDRAILS_CONFIG.output_policies)
            IN  /\ loc' = [loc EXCEPT
                      ![r].output_validation = output_validation,
                      ![r].total_cost = @ + output_validation.cost,
                      ![r].answer = IF output_validation.masked
                                    THEN output_validation.masked_text ELSE @]
                /\ Event(r, "guardrail_out")
       ELSE UNCHANGED <<loc, trace>>
    /\ Goto(r, "return")
    /\ UNCHANGED <<AI_GUARDRAILS_CONFIG, script, agent, thr, stmt, governance,
                   logging_threads, ret, guardVars>>

\* lines 733-744
Response(l, validation_mode) ==
    [answer |-> l.answer, judge_verdict |-> l.judge_verdict,
     tools_called |-> l.tools_called, error |-> l.error_info, cost |-> l.total_cost,
     cost_breakdown |-> l.cost_breakdown, validation_mode |-> validation_mode,
     response_dict |-> l.response_dict]

Return(r) ==
    /\ pc[r] = "return"
    /\ ret' = [ret EXCEPT ![r] = Response(loc[r], script[r].validation_mode)]
    /\ Goto(r, "done")
    /\ UNCHANGED <<AI_GUARDRAILS_CONFIG, script, loc, agent, trace, thr, stmt, governance,
                   logging_threads, guardVars>>

\* ---------------------------------------------------------- specification
RequestStep(r) ==
    \/ InputGuardrails(r)
    \/ Classify(r)
    \/ ExecuteTools(r)
    \/ Synthesize(r)
    \/ Validate(r)
    \/ Extract(r)
    \/ StartLoggingThread(r)
    \/ MarkPhaseComplete(r)
    \/ TrackCheck(r)
    \/ TrackCreate(r)
    \/ TrackAppend(r)
    \/ PruneRead(r)
    \/ PruneAssign(r)
    \/ HandleException(r)
    \/ ErrorLogged(r)
    \/ OutputGuardrails(r)
    \/ Return(r)

ThreadStep(r) ==
    \/ Phase8Metadata(r)
    \/ Phase8Log(r)
    \/ Phase8Done(r)

Next ==
    \E r \in Requests :
        \/ RequestStep(r)
        \/ ThreadStep(r)
        \/ ExecuteStatement(r, "thread")
        \/ ExecuteStatement(r, "request")

Spec == Init /\ [][Next]_vars

\* one call of agent_query, with an agent that may also hand back a result
\* without validation results
InitAnyResult ==
    /\ InitRequests(1, Scripts \cup StubScripts, ProcessConfigs)
    /\ gcase = NoCase
    /\ gresult = NoCase

SpecAnyResult == InitAnyResult /\ [][Next]_vars

\* two calls of agent_query with the same arguments, whose collaborators answer alike
PairScripts ==
    {sc \in Scripts : /\ sc.qclass = RuleMatch /\ sc.fails = 0 /\ sc.response = PiiAnswer
                      /\ sc.validation_mode = "llm_judge"}
    \cup {sc \in Scripts : sc.fault = "tools" /\ sc.qclass = RuleMatch}
    \cup {sc \in Scripts : sc.query = SsnQuery}

InitPair ==
    /\ InitRequests(2, PairScripts, {GuardrailsConfig(TRUE)})
    /\ script[1] = script[2]
    /\ gcase = NoCase
    /\ gresult = NoCase

SpecPair == InitPair /\ [][Next]_vars

\* NumRequests concurrent calls of agent_query that pass the input guardrail
ConcScripts ==
    {MkScript(SafeQuery, "llm_judge", f, RuleMatch, 0, TRUE, PiiAnswer) :
        f \in {"none", "tools", "mark_phase_complete"}}

InitConc ==
    /\ InitRequests(NumRequests, ConcScripts, {GuardrailsConfig(TRUE)})
    /\ gcase = NoCase
    /\ gresult = NoCase

SpecConc == InitConc /\ [][Next]_vars

\* ------------------------------------ direct calls of the guardrail functions
StrictThreshold == 5

\* the custom configuration of the guardrails notebook
CustomConfig ==
    [enabled |-> TRUE,
     input_policies |-> [pii_detection |-> TRUE, toxicity_threshold |-> StrictThreshold],
     output_policies |-> [pii_masking |-> TRUE]]

\* a configuration that sets nothing but the toxicity threshold
ThresholdConfig(threshold) ==
    [enabled |-> TRUE, input_policies |-> [toxicity_threshold |-> threshold],
     output_policies |-> [toxicity_threshold |-> threshold]]

GuardConfigs ==
    {GuardrailsConfig(TRUE), GuardrailsConfig(FALSE), CustomConfig, <<>>,
     ThresholdConfig(6), ThresholdConfig(9)}

\* the `policies` arguments: None, and the lists the callers pass
PolicyLists ==
    {{},
     {"toxicity"},
     {"pii_detection", "toxicity", "prompt_injection", "jailbreak_detection"},
     {"pii_detection", "toxicity", "prompt_injection", "jailbreak"},
     {"pii"},
     {"prompt_injection"},
     {"pii_masking"},
     {"pii_masking", "toxicity", "groundedness_check"}}

GuardTexts ==
    {MkText(p, t, i, j, w) :
        p \in {q \in SUBSET PiiNames : Cardinality(q) <= MaxPii},
        t \in 0..MaxToxic, i \in BOOLEAN, j \in BOOLEAN, w \in BOOLEAN}

InitGuard ==
    /\ InitRequests(0, {}, {GuardrailsConfig(TRUE)})
    /\ gcase \in [op : {"validate_input", "validate_output"}, config : GuardConfigs,
                  text : GuardTexts, policies : PolicyLists]
    /\ gresult = NoCase

RunValidateInput ==
    /\ gcase.op = "validate_input"
    /\ gresult = NoCase
    /\ gresult' = [op |-> "validate_input",
                   result |-> validate_input(gcase.config, gcase.text, gcase.policies)]
    /\ UNCHANGED <<requestVars, gcase>>

RunValidateOutput ==
    /\ gcase.op = "validate_output"
    /\ gresult = NoCase
    /\ gresult' = [op |-> "validate_output",
                   result |-> validate_output(gcase.config, gcase.text, gcase.policies)]
    /\ UNCHANGED <<requestVars, gcase>>

NextGuard == RunValidateInput \/ RunValidateOutput

SpecGuard == InitGuard /\ [][NextGuard]_vars

\* --------------------------------------------- Tool Executor: execute(tool_ids, ...)
\* the Capability Registry of one country
Registry == {"eligibility", "benefit"}

\* a requested tool: its id, and whether its calculator fails when invoked
ToolCalls == [tool_id : Registry \cup {"horoscope"}, fails : BOOLEAN]

RECURSIVE SeqsUpTo(_, _)
SeqsUpTo(S, n) ==
    IF n = 0 THEN {<<>>}
    ELSE LET shorter == SeqsUpTo(S, n - 1)
         IN  shorter \cup {Append(q, x) : q \in {t \in shorter : Len(t) = n - 1}, x \in S}

Resolve(tool_id) == tool_id \in Registry

ToolInvocationResult(tool_id, success, error) ==
    [tool_id |-> tool_id, success |-> success, error |-> error]

\* one invocation: an unresolved id and a failing call are recorded, not raised
InvokeTool(call) ==
    IF ~Resolve(call.tool_id) THEN ToolInvocationResult(call.tool_id, FALSE, "unknown tool")
    ELSE IF call.fails THEN ToolInvocationResult(call.tool_id, FALSE, "calculation error")
    ELSE ToolInvocationResult(call.tool_id, TRUE, "")

ExecuteState(next, results, raised) ==
    [op |-> "execute", next |-> next, results |-> results, raised |-> raised]

\* an executor that lets the first failure escape to its caller
ExecuteOneAborting(st, tool_ids) ==
    LET result == InvokeTool(tool_ids[st.next])
    IN  IF result.success
        THEN ExecuteState(st.next + 1, Append(st.results, result), FALSE)
        ELSE ExecuteState(Len(tool_ids) + 1, st.results, TRUE)

\* the executor's loop body: invoke the next requested tool, keep its result
ExecuteOne(st, tool_ids) ==
    ExecuteState(st.next + 1, Append(st.results, InvokeTool(tool_ids[st.next])), FALSE)

InitTools ==
    /\ InitRequests(0, {}, {GuardrailsConfig(TRUE)})
    /\ gcase \in [op : {"execute"}, tool_ids : SeqsUpTo(ToolCalls, MaxTools)]
    /\ gresult = ExecuteState(1, <<>>, FALSE)

ExecuteNextTool ==
    /\ gcase.op = "execute"
    /\ gresult.next <= Len(gcase.tool_ids)
    /\ gresult' = ExecuteOne(gresult, gcase.tool_ids)
    /\ UNCHANGED <<requestVars, gcase>>

NextTools == ExecuteNextTool

SpecTools == InitTools /\ [][NextTools]_vars

\* ------------------------------------ PensionAdvisorModel.predict (mlflow_model.py)
\* what agent_query hands back for a row: the blocked response, the structured
\* response of a processed query, and the structured response of a failed one
AgentResults ==
    {BlockedResponse(0, validate_input(GuardrailsConfig(TRUE), SsnQuery, {"pii_detection"})),
     [answer |-> PlainAnswer, cost |-> ClassCost + SynthCost, error |-> "None"],
     [answer |-> NoneText, cost |-> 0, error |-> "tools"]}

\* how the call of agent_query for a row ends
RowOutcomes ==
    {[raises |-> FALSE, result |-> result] : result \in AgentResults}
    \cup {[raises |-> TRUE, e |-> "endpoint unavailable"]}

\* the batches: row i carries session_id i
Batches ==
    {[i \in 1..Len(outcomes) |-> [session_id |-> i, outcome |-> outcomes[i]]] :
        outcomes \in SeqsUpTo(RowOutcomes, MaxRows)}

\* lines 148-159
FormattedResult(row, result) ==
    [session_id |-> row.session_id,
     answer |-> Get(result, "answer", NoneText),
     cost |-> Get(result, "cost", 0),
     blocked |-> Get(result, "blocked", FALSE),
     violations |-> Get(result, "violations", <<>>),
     error |-> Get(result, "error", "None")]

\* lines 166-177
ErrorResult(row, e) ==
    [session_id |-> row.session_id, answer |-> NoneText, cost |-> 0, blocked |-> FALSE,
     violations |-> <<>>, error |-> e]

PredictState(next, results, raised) ==
    [op |-> "predict", next |-> next, results |-> results, raised |-> raised]

\* a loop body without the try/except: the exception of a row ends predict
PredictRowUnguarded(st, model_input) ==
    LET row == model_input[st.next]
    IN  IF row.outcome.raises
        THEN PredictState(Len(model_input) + 1, st.results, TRUE)
        ELSE PredictState(st.next + 1,
                          Append(st.results, FormattedResult(row, row.outcome.result)), FALSE)

\* lines 127-177: one iteration of `for idx, row in model_input.iterrows()`
PredictRow(st, model_input) ==
    LET row == model_input[st.next]
    IN  PredictState(st.next + 1,
                     Append(st.results,
                            IF row.outcome.raises THEN ErrorResult(row, row.outcome.e)
                            ELSE FormattedResult(row, row.outcome.result)),
                     FALSE)

InitPredict ==
    /\ InitRequests(0, {}, {GuardrailsConfig(TRUE)})
    /\ gcase \in [op : {"predict"}, model_input : Batches]
    /\ gresult = PredictState(1, <<>>, FALSE)

PredictNextRow ==
    /\ gcase.op = "predict"
    /\ gresult.next <= Len(gcase.model_input)
    /\ gresult' = PredictRow(gresult, gcase.model_input)
    /\ UNCHANGED <<requestVars, gcase>>

NextPredict == PredictNextRow

SpecPredict == InitPredict /\ [][NextPredict]_vars

\* ------------------------------------------------- scorers.py: score_query
get_all_scorers ==
    <<"relevance", "faithfulness", "toxicity", "country_compliance", "citation_quality">>

LlmScorers == {"relevance", "faithfulness"}

\* how the evaluation of one scorer goes: it passes or fails the response, or
\* it breaks (for an LLM scorer the endpoint call or the JSON parsing raises
\* inside score; for a rule scorer score itself raises)
ScorerOutcomes == {"pass", "fail", "breaks"}

ScorerEntry(scorer, score, passed, verdict) ==
    [scorer |-> scorer, score |-> score, passed |-> passed, verdict |-> verdict]

\* RelevanceScorer.score / FaithfulnessScorer.score: an exception is caught
\* inside score, which returns an entry (lines 92-101, 171-180)
LlmScorerScore(scorer, outcome) ==
    CASE outcome = "pass"   -> [raises |-> FALSE, result |-> ScorerEntry(scorer, 9, TRUE, "PASS")]
      [] outcome = "fail"   -> [raises |-> FALSE, result |-> ScorerEntry(scorer, 4, FALSE, "FAIL")]
      [] outcome = "breaks" -> [raises |-> FALSE, result |-> ScorerEntry(scorer, 5, TRUE, "ERROR")]

\* ToxicityScorer.score, CountryComplianceScorer.score, CitationQualityScorer.score
RuleScorerScore(scorer, outcome) ==
    CASE outcome = "pass"   -> [raises |-> FALSE, result |-> ScorerEntry(scorer, 10, TRUE, "PASS")]
      [] outcome = "fail"   -> [raises |-> FALSE, result |-> ScorerEntry(scorer, 4, FALSE, "FAIL")]
      [] outcome = "breaks" -> [raises |-> TRUE]

Score(scorer, outcome) ==
    IF scorer \in LlmScorers THEN LlmScorerScore(scorer, outcome)
    ELSE RuleScorerScore(scorer, outcome)

\* lines 382-401: the entry score_query records for one scorer
RecordedEntry(scorer, outcome) ==
    LET call == Score(scorer, outcome)
    IN  IF call.raises THEN ScorerEntry(scorer, 0, FALSE, "ERROR") ELSE call.result

\* lines 374-416; scorers: the names asked for ({} models None and [])
score_query(outcomes, scorers) ==
    LET all_scorers == IF scorers # {}
                       THEN SelectSeq(get_all_scorers, LAMBDA name : name \in scorers)
                       ELSE get_all_scorers
        results == [i \in 1..Len(all_scorers) |->
                        RecordedEntry(all_scorers[i], outcomes[all_scorers[i]])]
        passed_count == Cardinality({i \in 1..Len(results) : results[i].passed})
        total_count  == Len(results)
    IN  [individual_scores |-> results,
         passed_count |-> passed_count,
         total_count |-> total_count,
         verdict |-> IF 10 * passed_count >= 8 * total_count THEN "PASS" ELSE "FAIL"]

ScorerNames == {get_all_scorers[i] : i \in 1..Len(get_all_scorers)}

\* the `scorers` arguments: None, and two lists of names
ScorerLists == {{}, {"relevance", "toxicity"}, {"toxicity", "citation_quality"}}

InitScore ==
    /\ InitRequests(0, {}, {GuardrailsConfig(TRUE)})
    /\ gcase \in [op : {"score_query"}, outcomes : [ScorerNames -> ScorerOutcomes],
                  scorers : ScorerLists]
    /\ gresult = NoCase

RunScoreQuery ==
    /\ gcase.op = "score_query"
    /\ gresult = NoCase
    /\ gresult' = [op |-> "score_query",
                   result |-> score_query(gcase.outcomes, gcase.scorers)]
    /\ UNCHANGED <<requestVars, gcase>>

NextScore == RunScoreQuery

SpecScore == InitScore /\ [][NextScore]_vars

\* ================================================================== claims
Active == {r \in Requests : pc[r] # "unused"}

Returned(r) == pc[r] = "done"

\* agent_query returned its structured response (not the blocked one, no exception)
Answered(r) == Returned(r) /\ "answer" \in DOMAIN ret[r]

\* C1: whenever the input guardrail blocks a query, agent_query has returned
\* in the same step with blocked = true, the verdict's violations and a cost
\* equal to the verdict's cost alone, the response has no answer, and
\* process_query was never started: no classification, tool, synthesis or
\* validation ran, no audit statement and no logging thread exists.
C1_BlockedShortCircuits ==
    \A r \in Active :
        loc[r].input_validation.blocked =>
            /\ Returned(r)
            /\ DOMAIN ret[r] = {"error", "blocked", "violations", "cost", "session_id"}
            /\ ret[r].blocked = TRUE
            /\ ret[r].violations = loc[r].input_validation.violations
            /\ ret[r].cost = loc[r].input_validation.cost
            /\ ret[r].cost = UnitCost
            /\ agent[r] = InitAgent
            /\ trace[r] = <<"guardrail_in">>
            /\ thr[r] = InitThread
            /\ stmt[r] = [thread |-> NoStmt, request |-> NoStmt]

C1_Witness ==
    \E r \in Active :
        /\ loc[r].input_validation.blocked
        /\ Returned(r)
        /\ ret[r].violations = <<Violation("PII detected", <<"ssn">>)>>

\* ---- C2
InputCall == gresult.op = "validate_input"

\* the text matches a PII pattern, reaches the toxicity threshold, or matches a
\* prompt-injection or jailbreak pattern
MatchesSomePattern(config, text) ==
    \/ text.pii # {}
    \/ Min(ScoreCap, text.toxic * ToxicWeight) >= toxicity_threshold(config)
    \/ text.injection
    \/ text.jailbreak

\* C2 as stated: validate_input returns blocked = true for every input that
\* matches a PII, toxicity, prompt-injection or jailbreak pattern and
\* blocked = false for every input that matches none.
C2_Original ==
    InputCall => (gresult.result.blocked <=> MatchesSomePattern(gcase.config, gcase.text))

\* the toxicity check reports the text toxic
ToxicityFires(config, text) == _check_toxicity(config, text)[1]

\* the checks the call selects: `policies`, or the keys of input_policies
Selected(config, policies) ==
    IF policies # {} THEN policies ELSE DOMAIN Get(config, "input_policies", <<>>)

\* C2 amended: with guardrails enabled, validate_input returns blocked = true
\* exactly when a selected check fires (a PII pattern under pii_detection or
\* pii, a toxicity check that reports the text toxic under toxicity or
\* toxicity_threshold, an injection pattern under prompt_injection, a
\* jailbreak pattern under jailbreak_detection or jailbreak); with guardrails
\* disabled it never blocks.
C2_BlockedIffSelectedCheckFires ==
    InputCall =>
        LET sel == Selected(gcase.config, gcase.policies)
            t   == gcase.text
        IN  gresult.result.blocked <=>
              /\ Get(gcase.config, "enabled", TRUE)
              /\ \/ sel \cap {"pii_detection", "pii"} # {} /\ t.pii # {}
                 \/ /\ sel \cap {"toxicity", "toxicity_threshold"} # {}
                    /\ ToxicityFires(gcase.config, t)
                 \/ "prompt_injection" \in sel /\ t.injection
                 \/ sel \cap {"jailbreak_detection", "jailbreak"} # {} /\ t.jailbreak

\* a jailbreak phrase alone is blocked when all four checks are selected
C2_Witness ==
    /\ InputCall
    /\ gcase.policies = {"pii_detection", "toxicity", "prompt_injection", "jailbreak_detection"}
    /\ gcase.text = MkText({}, 0, FALSE, TRUE, FALSE)
    /\ gresult.result.blocked

\* ---- C3
GetCost(cost_breakdown, phase) ==
    IF phase \in DOMAIN cost_breakdown THEN cost_breakdown[phase].cost ELSE 0

\* C3: for every completed or errored request, the cost agent_query returns is
\* classification cost + synthesis cost + validation cost + the input and
\* output guardrail costs charged for the request.
C3_CostAdditivity ==
    \A r \in Active :
        Answered(r) =>
            ret[r].cost = GetCost(ret[r].cost_breakdown, "classification")
                          + GetCost(ret[r].cost_breakdown, "synthesis")
                          + GetCost(ret[r].cost_breakdown, "validation")
                          + loc[r].input_validation.cost
                          + loc[r].output_validation.cost

\* ---- C4
Quiescent ==
    /\ \A r \in Active : Returned(r) /\ ~is_alive(r)
    /\ \A r \in Requests : \A who \in {"thread", "request"} : stmt[r][who].status # "pending"

RowsOf(r) == {i \in 1..Len(governance) : governance[i].session_id = r}

\* C4: once all N concurrent requests have returned and every background
\* logging thread and statement has finished, the governance table holds
\* exactly N records, one per request.
C4_OneRecordPerRequest ==
    Quiescent =>
        /\ Len(governance) = Cardinality(Active)
        /\ \A r \in Active : Cardinality(RowsOf(r)) = 1

\* ---- C5
Rank(event) ==
    CASE event = "guardrail_in"   -> 1
      [] event = "classify"       -> 2
      [] event = "tools"          -> 3
      [] event = "synthesize"     -> 4
      [] event = "validate"       -> 4
      [] event = "guardrail_out"  -> 5
      [] event = "audit_dispatch" -> 6

\* C5: the stages of a request run in the order input guardrail,
\* classification, tool execution, synthesis/validation, output guardrail,
\* audit emission; the audit emission of a request is dispatched only after
\* its output guardrail has completed.
C5_StageOrder ==
    \A r \in Active :
        /\ \A i, j \in 1..Len(trace[r]) :
              i < j => Rank(trace[r][i]) <= Rank(trace[r][j])
        /\ (thr[r].pc # "none" /\ AI_GUARDRAILS_ENABLED /\ Truthy(loc[r].answer))
              => pc[r] \in {"return", "done"}

\* ---- C6
\* the request thread is inside log_to_governance_table, its INSERT handed to
\* the warehouse, and agent_query has not returned
AwaitsAuditWrite(r) == pc[r] = "error_logging" /\ stmt[r].request.status # "none"

\* C6: agent_query never waits for an audit write before returning: every
\* audit write, on the success and on the error path, runs in the background.
C6_NeverAwaitsAuditWrite ==
    \A r \in Active : ~AwaitsAuditWrite(r)

\* ---- C7
\* what the caller sees of a return value, the call's own session id aside
Visible(response) == [k \in DOMAIN response \ {"session_id"} |-> response[k]]

\* C7: no exception of an audit write reaches the caller of agent_query, and
\* two calls with the same arguments whose collaborators answer alike return
\* the same answer, verdict, error field and cost whether the audit write of
\* either of them failed, succeeded or is still running.
C7_SinkFailureNeverChangesReturn ==
    /\ \A r \in Active : Returned(r) => "raised" \notin DOMAIN ret[r]
    /\ (Returned(1) /\ Returned(2)) => Visible(ret[1]) = Visible(ret[2])

\* the error-path write of one call failed, that of the other succeeded
C7_Witness ==
    /\ Returned(1) /\ Returned(2)
    /\ stmt[1].request.status = "failed"
    /\ stmt[2].request.status = "ok"
    /\ ret[1].error = "tools"
    /\ Visible(ret[1]) = Visible(ret[2])

\* ---- C8
EscapedStage(r) == script[r].fault \in {"tools", "synthesis", "validation"}

\* C8: when an exception escapes tool execution, synthesis or validation, the
\* request returns with error populated and the error audit record written
\* for it carries at least the guardrail cost already charged to the request.
C8_ErrorRecordCarriesPartialCost ==
    /\ \A r \in Active :
          (EscapedStage(r) /\ Answered(r)) => ret[r].error # "None"
    /\ \A i \in 1..Len(governance) :
          LET r == governance[i].session_id
          IN  (EscapedStage(r) /\ governance[i].judge_verdict = "Error")
                  => governance[i].cost >= loc[r].input_validation.cost

\* ---- C9
\* C9: whenever agent_query returns with error populated, the returned answer
\* is None or empty, whatever step raised the exception.
C9_ErrorMeansNoAnswer ==
    \A r \in Active :
        (Answered(r) /\ ret[r].error # "None") => ~Truthy(ret[r].answer)

\* ---- C10
ValidateEvents(r) == Len(SelectSeq(trace[r], LAMBDA ev : ev = "validate"))

\* C10: at every moment of a request the number of validation attempts made
\* is at most the configured maximum, and so is the attempt count of the
\* verdict agent_query returns.
C10_AttemptsBounded ==
    \A r \in Active :
        /\ Len(agent[r].validation_results) <= MaxAttempts
        /\ ValidateEvents(r) <= MaxAttempts
        /\ Answered(r) => ret[r].judge_verdict.attempts <= MaxAttempts

\* the validator failed every attempt and the retries are exhausted
C10_Witness ==
    \E r \in Active :
        /\ Answered(r)
        /\ script[r].fails >= MaxAttempts
        /\ ret[r].judge_verdict.attempts = MaxAttempts
        /\ ret[r].judge_verdict.verdict = "Fail"
        /\ \A i \in 1..MaxAttempts : ~agent[r].validation_results[i].passed

\* ---- C11
\* agent_query returned the cost breakdown of an extracted agent result
Reported(r) == Answered(r) /\ ret[r].cost_breakdown # <<>>

SyntheticPass(judge_verdict) ==
    /\ judge_verdict.passed
    /\ judge_verdict.verdict = "Pass"
    /\ judge_verdict.reasoning = "Deterministic validation"

LatestValidation(results) == results[Len(results)]

\* C12: a step from VALIDATE back to SYNTHESIZE is taken only when the
\* validation just made failed and fewer attempts than the maximum were made;
\* a step from VALIDATE onwards is taken only after a pass or with the budget
\* used up; and once process_query has returned, no synthesis or validation
\* attempt is added for that request.
C12_RetryOnlyOnFailureWithinBudget ==
    [][\A r \in Active :
          /\ (pc[r] = "validate" /\ pc'[r] = "synthesize") =>
                /\ ~LatestValidation(agent'[r].validation_results).passed
                /\ Len(agent'[r].validation_results) < MaxAttempts
          /\ (pc[r] = "validate" /\ pc'[r] = "extract") =>
                \/ LatestValidation(agent'[r].validation_results).passed
                \/ Len(agent'[r].validation_results) = MaxAttempts
          /\ agent[r].returned =>
                /\ agent'[r].synthesis_results = agent[r].synthesis_results
                /\ agent'[r].validation_results = agent[r].validation_results
                /\ pc'[r] \notin {"synthesize", "validate"}]_vars

\* one failed validation, a retry, then a pass: the request went on and returned
C12_Witness ==
    \E r \in Active :
        /\ Answered(r)
        /\ agent[r].returned
        /\ Len(agent[r].validation_results) = 2
        /\ ~agent[r].validation_results[1].passed
        /\ agent[r].validation_results[2].passed
        /\ ValidateEvents(r) = 2
        /\ Len(SelectSeq(trace[r], LAMBDA ev : ev = "synthesize")) = 2

\* ---- C13
\* what agent_query delivers of a text the agent returned: the output guardrail masks PII
Delivered(text) ==
    IF AI_GUARDRAILS_ENABLED /\ Truthy(text)
    THEN LET ov == validate_output(AI_GUARDRAILS_CONFIG, text,
                                   DOMAIN AI_GUARDRAILS_CONFIG.output_policies)
         IN  IF ov.masked THEN ov.masked_text ELSE text
    ELSE text

BestScoring(results) ==
    {i \in 1..Len(results) :
        \A j \in 1..Len(results) : results[i].confidence >= results[j].confidence}

\* process_query returned after its last allowed validation attempt failed
Exhausted(r) ==
    /\ agent[r].returned
    /\ agent[r].validation_results # <<>>
    /\ ~LatestValidation(agent[r].validation_results).passed

Deterministic(r) == script[r].validation_mode = "deterministic"

C15_ToxicOutputNotDelivered ==
    \A r \in Active :
        (Answered(r) /\ loc[r].output_validation.blocked) =>
            /\ ~Truthy(ret[r].answer)
            /\ ret[r].error # "None"

\* ---- C16
OutputCall == gresult.op = "validate_output"

OutputSelected(config, policies) ==
    IF policies # {} THEN policies ELSE DOMAIN Get(config, "output_policies", <<>>)

Recorded(violations, msg) == \E i \in 1..Len(violations) : violations[i].msg = msg

\* C16: validate_output returns blocked = true exactly when its toxicity
\* check fires (guardrails enabled, the check selected, the text reported
\* toxic).  A PII match under a selected PII policy is masked and
\* recorded, a failed groundedness check under a selected policy is
\* recorded, and neither of them blocks.
C16_OutputBlocksOnlyOnToxicity ==
    OutputCall =>
        LET sel     == OutputSelected(gcase.config, gcase.policies)
            t       == gcase.text
            res     == gresult.result
            enabled == Get(gcase.config, "enabled", TRUE)
            toxic   == /\ enabled
                       /\ sel \cap {"toxicity", "toxicity_threshold"} # {}
                       /\ ToxicityFires(gcase.config, t)
            pii     == enabled /\ sel \cap {"pii_masking", "pii"} # {} /\ t.pii # {}
            weak    == enabled /\ sel \cap {"groundedness_check", "groundedness"} # {} /\ t.weak
        IN  /\ res.blocked <=> toxic
            /\ res.masked <=> pii
            /\ pii => /\ res.masked_text = [t EXCEPT !.pii = {}, !.redacted = TRUE]
                      /\ Recorded(res.violations, "PII masked")
            /\ ~pii => res.masked_text = t
            /\ weak <=> Recorded(res.violations, "Response may not be grounded in facts")

\* a short answer holding an e-mail address and no toxic keyword: masked,
\* both findings recorded, not blocked
C16_Witness ==
    /\ OutputCall
    /\ gcase.config = GuardrailsConfig(TRUE)
    /\ gcase.policies = {"pii_masking", "toxicity", "groundedness_check"}
    /\ gcase.text = MkText({"email"}, 0, FALSE, FALSE, TRUE)
    /\ ~gresult.result.blocked
    /\ gresult.result.masked
    /\ Len(gresult.result.violations) = 2

\* ---- C17
\* the logging thread of request r is in agent_query._logging_threads
Tracked(r) ==
    /\ logging_threads # Unset
    /\ \E i \in 1..Len(logging_threads[1]) : logging_threads[1][i] = r

\* C17: every background logging thread a request started is tracked: once
\* the request has returned, its thread, while it still runs, is in the
\* list the shutdown handler joins.
C17_EveryLiveThreadTracked ==
    \A r \in Active : (Returned(r) /\ is_alive(r)) => Tracked(r)

\* ---- C18
InFlight(r) == pc[r] \notin {"unused", "done"}

\* C18: a request reads nothing that another in-flight request wrote: the
\* thread list it reads at the pruning step holds no thread of another
\* request that is still in flight.
C18_NoSharedMutableState ==
    \A r \in Active :
        pc[r] = "prune_assign" =>
            \A i \in 1..Len(loc[r].pruned) :
                loc[r].pruned[i] # r => ~InFlight(loc[r].pruned[i])

\* ---- C19
\* C19: in every audit record written for a request in which nothing raised,
\* the cost column equals the total_cost of the record's cost-metadata JSON.
C19_CostColumnMatchesMetadata ==
    \A i \in 1..Len(governance) :
        (/\ script[governance[i].session_id].fault = "none"
         /\ governance[i].error_text.format = "json") =>
            governance[i].cost = governance[i].error_text.cost_metadata.total_cost

\* ---- C20
Classified(r) == agent[r].classification # <<>>

Ran(classification, stage) ==
    \E i \in 1..Len(classification.stages) : classification.stages[i] = stage

\* C20: the classifier runs its LLM stage only for a query that neither
\* stage 1 nor stage 2 resolves, and reports method llm only then; a query
\* matching exactly one stage-1 rule is classified with method regex at no
\* cost, no later stage runs for it, and agent_query reports that method.
C20_CascadeOrder ==
    \A r \in Active :
        Classified(r) =>
            LET c == agent[r].classification
                k == script[r].qclass
            IN  /\ Ran(c, "llm") => (k.rules # 1 /\ ~k.similar)
                /\ c.method = "llm" <=> Ran(c, "llm")
                /\ k.rules = 1 =>
                      /\ c.method = "regex"
                      /\ c.cost_usd = 0
                      /\ c.stages = <<"regex">>
                      /\ Reported(r) =>
                            ret[r].cost_breakdown.classification.method = "regex"

\* a query that matches one stage-1 rule and would also be resolved by stage 2
C20_Witness ==
    \E r \in Active :
        /\ Reported(r)
        /\ script[r].qclass = MkQueryClass(1, TRUE)
        /\ agent[r].classification.stages = <<"regex">>
        /\ ret[r].cost_breakdown.classification.method = "regex"
        /\ ret[r].cost_breakdown.classification.cost = 0

\* ---- C21
ExecuteReturned == gresult.op = "execute" /\ gresult.next > Len(gcase.tool_ids)

\* C21: the tool executor returns exactly one result per requested tool id, in
\* the order issued; the result of an unresolved tool id or of a failing call
\* has success = false and an error text; nothing is raised to the
\* orchestrator, and every requested tool after a failed one is still invoked.
C21_OneResultPerToolInOrder ==
    gresult.op = "execute" =>
        /\ ~gresult.raised
        /\ ExecuteReturned => Len(gresult.results) = Len(gcase.tool_ids)
        /\ \A i \in 1..Len(gresult.results) :
              LET call   == gcase.tool_ids[i]
                  result == gresult.results[i]
              IN  /\ result.tool_id = call.tool_id
                  /\ result.success <=> (call.tool_id \in Registry /\ ~call.fails)
                  /\ ~result.success => result.error # ""

\* an unresolved id, then a failing call, then a tool that succeeds
C21_Witness ==
    /\ ExecuteReturned
    /\ Len(gresult.results) = 3
    /\ gresult.results[1] = ToolInvocationResult("horoscope", FALSE, "unknown tool")
    /\ gresult.results[2] = ToolInvocationResult("benefit", FALSE, "calculation error")
    /\ gresult.results[3] = ToolInvocationResult("eligibility", TRUE, "")

\* ---- C22
PredictReturned == gresult.op = "predict" /\ gresult.next > Len(gcase.model_input)

\* C22: predict returns exactly one output row per input row, in input order;
\* a row whose agent_query call raises yields an error row (answer None,
\* cost 0, blocked false, the exception's text as error), a row whose call
\* returns yields that call's answer, cost, blocked flag and error, and the
\* rows after a raising one are still processed; predict itself raises nothing.
C22_OneRowPerInputRow ==
    gresult.op = "predict" =>
        /\ ~gresult.raised
        /\ PredictReturned => Len(gresult.results) = Len(gcase.model_input)
        /\ \A i \in 1..Len(gresult.results) :
              LET row == gcase.model_input[i]
                  out == gresult.results[i]
              IN  /\ out.session_id = row.session_id
                  /\ row.outcome.raises =>
                        /\ out.answer = NoneText
                        /\ out.cost = 0
                        /\ out.blocked = FALSE
                        /\ out.error = row.outcome.e
                        /\ out.error # "None"
                  /\ ~row.outcome.raises =>
                        /\ "answer" \in DOMAIN row.outcome.result =>
                              out.answer = row.outcome.result.answer
                        /\ out.cost = row.outcome.result.cost
                        /\ out.blocked = ("blocked" \in DOMAIN row.outcome.result)

\* a batch whose first row raises and whose later rows are answered and blocked
C22_Witness ==
    /\ PredictReturned
    /\ Len(gresult.results) = 3
    /\ gcase.model_input[1].outcome.raises
    /\ gresult.results[1].error = "endpoint unavailable"
    /\ gresult.results[2].answer = PlainAnswer
    /\ gresult.results[3].blocked

\* ---- C23
\* the policy is set to false in the configuration's input_policies
PolicyDisabled(config, policy) ==
    policy \in DOMAIN config.input_policies /\ config.input_policies[policy] = FALSE

\* the only check the query can trip is the PII check
OnlyPiiViolation(query) ==
    /\ query.pii # {}
    /\ query.toxic = 0
    /\ ~query.injection
    /\ ~query.jailbreak

\* C23: with pii_detection set to false in the configuration, a query whose
\* only violation is PII is not blocked by agent_query.
C23_DisabledPolicyNotBlocked ==
    \A r \in Active :
        ( /\ PolicyDisabled(AI_GUARDRAILS_CONFIG, "pii_detection")
          /\ OnlyPiiViolation(script[r].query)
          /\ Returned(r) )
        => "blocked" \notin DOMAIN ret[r]

\* ---- C24
ToxicitySelected ==
    /\ InputCall
    /\ Get(gcase.config, "enabled", TRUE)
    /\ Selected(gcase.config, gcase.policies) \cap {"toxicity", "toxicity_threshold"} # {}

\* C24: the input toxicity check fires exactly when min(1, 0.3 x the number of
\* distinct toxic keywords in the text), taken as a decimal number, is at
\* least the configured threshold; with the default threshold 0.7 it fires
\* exactly for texts with three or more distinct keywords.
C24_ToxicityFiresAtThreshold ==
    ToxicitySelected =>
        /\ Recorded(gresult.result.violations, "Toxic content")
              <=> Min(ScoreCap, gcase.text.toxic * ToxicWeight) >= toxicity_threshold(gcase.config)
        /\ toxicity_threshold(gcase.config) = DefaultThreshold =>
              (Recorded(gresult.result.violations, "Toxic content") <=> gcase.text.toxic >= 3)

\* ---- C25
\* the returned verdict is the last validation attempt's, with the attempt count
LastVerdictReturned(r) ==
    LET results == agent[r].validation_results
        last    == LatestValidation(results)
        jv      == ret[r].judge_verdict
    IN  /\ jv.passed = last.passed
        /\ jv.confidence = last.confidence
        /\ jv.reasoning = last.reasoning
        /\ jv.violations = last.violations
        /\ jv.verdict = (IF last.passed THEN "Pass" ELSE "Fail")
        /\ jv.attempts = Len(results)

RaisedAfterValidation(r) == loc[r].e # ""

CheckOrder(msg) ==
    CASE msg = "PII detected"               -> 1
      [] msg = "Toxic content"              -> 2
      [] msg = "Prompt injection detected"  -> 3
      [] msg = "Jailbreak attempt detected" -> 4

\* C26: with guardrails enabled, validate_input runs every selected check
\* whatever the earlier checks found: each PII pattern that matches, a toxic
\* text, an injection pattern and a jailbreak pattern are each listed when
\* their check is selected; the violations are listed in the order PII,
\* toxicity, prompt injection, jailbreak; and a verdict for which at least one
\* check was selected costs the unit cost, blocked or not, so every blocked
\* verdict costs the unit cost.
C26_AllChecksRunInOrder ==
    (InputCall /\ Get(gcase.config, "enabled", TRUE)) =>
        LET sel == Selected(gcase.config, gcase.policies)
            t   == gcase.text
            v   == gresult.result.violations
        IN  /\ sel \cap {"pii_detection", "pii"} # {} =>
                  \A p \in t.pii : \E i \in 1..Len(v) : v[i] = Violation("PII detected", <<p>>)
            /\ (sel \cap {"toxicity", "toxicity_threshold"} # {} /\ ToxicityFires(gcase.config, t))
                  => Recorded(v, "Toxic content")
            /\ ("prompt_injection" \in sel /\ t.injection)
                  => Recorded(v, "Prompt injection detected")
            /\ (sel \cap {"jailbreak_detection", "jailbreak"} # {} /\ t.jailbreak)
                  => Recorded(v, "Jailbreak attempt detected")
            /\ \A i, j \in 1..Len(v) : i < j => CheckOrder(v[i].msg) <= CheckOrder(v[j].msg)
            /\ sel # {} => gresult.result.cost = UnitCost
            /\ gresult.result.blocked => gresult.result.cost = UnitCost

\* a query that trips all four checks: blocked, four kinds of violation in order
C26_Witness ==
    /\ InputCall
    /\ gresult.result.blocked
    /\ gresult.result.cost = UnitCost
    /\ Len(gresult.result.violations) = 4
    /\ gresult.result.violations[1].msg = "PII detected"
    /\ gresult.result.violations[2].msg = "Toxic content"
    /\ gresult.result.violations[3].msg = "Prompt injection detected"
    /\ gresult.result.violations[4].msg = "Jailbreak attempt detected"

\* ---- C27
\* C27: a verdict of Pass with zero validation attempts is returned only in
\* deterministic mode; in llm_judge mode every returned Pass verdict comes
\* from a validation attempt that passed, also when the result of
\* process_query carries no validation results.
C27_PassOnlyFromPassedAttempt ==
    \A r \in Active :
        (Answered(r) /\ ret[r].judge_verdict.verdict = "Pass") =>
            /\ ret[r].judge_verdict.attempts = 0 => ret[r].validation_mode = "deterministic"
            /\ ret[r].validation_mode = "llm_judge" =>
                  /\ agent[r].validation_results # <<>>
                  /\ LatestValidation(agent[r].validation_results).passed

\* ---- C28
\* C28: the answer stored in the audit record of a request in which nothing
\* raised is the text returned to the caller, so no PII that the output
\* guardrail masked in the response is stored unmasked.
C28_AuditAnswerIsReturnedAnswer ==
    \A i \in 1..Len(governance) :
        LET r == governance[i].session_id
        IN  (/\ script[r].fault = "none"
             /\ governance[i].error_text.format = "json"
             /\ Answered(r)) =>
                /\ governance[i].agent_response = ret[r].answer
                /\ ret[r].answer.redacted => governance[i].agent_response.pii = {}

\* ---- C29
\* request r has appended its logging thread to the tracker (line 613)
Appended(r) ==
    /\ pc[r] \in {"prune_read", "prune_assign", "guard_out", "return", "done"}
    /\ loc[r].e = ""

\* C29: once a request has appended its logging thread to
\* agent_query._logging_threads, the thread stays in the tracker for as long
\* as it is alive, whatever other requests do to the tracker.
C29_LiveThreadStaysTracked ==
    \A r \in Active : (Appended(r) /\ is_alive(r)) => Tracked(r)

\* ---- C30
\* the entries that passed and whose evaluation did not fail
PassedWithoutError(individual_scores) ==
    {i \in 1..Len(individual_scores) :
        individual_scores[i].passed /\ individual_scores[i].verdict # "ERROR"}

\* C30: in the result of score_query no entry whose verdict is ERROR is
\* counted in passed_count, so the overall verdict is PASS only when the
\* entries that passed without error are at least 80% of the scorers run.
C30_ErrorEntriesNotCounted ==
    gresult.op = "score_query" =>
        LET res == gresult.result
        IN  /\ res.passed_count = Cardinality(PassedWithoutError(res.individual_scores))
            /\ res.verdict = "PASS" =>
                  10 * Cardinality(PassedWithoutError(res.individual_scores))
                      >= 8 * res.total_count

====
